---- MODULE Spec2Model ----
(***************************************************************************)
(* HyTrack API: the /track operation (src/api.py), the two trackers and    *)
(* the browser scope (src/trackers.py), run on one asyncio event loop.     *)
(*                                                                         *)
(* track_shipment is a coroutine: it leaves the event loop only where it   *)
(* awaits something that is not ready.  DelhiveryTracker.fetch_latest_event*)
(* is declared async but awaits nothing (driver.get and WebDriverWait.until*)
(* are blocking calls), and BlueDartTracker.fetch_latest_event is a plain  *)
(* blocking call, so the only place the handler can be suspended is the    *)
(* slow path of chrome_semaphore.acquire().  The variable running names    *)
(* the task that owns the loop; every step of a handler needs it.          *)
(*                                                                         *)
(* The API keys (src/keys_db.py) and the admin endpoints are part of the   *)
(* state too.  Spec runs the /track requests against a keys table that     *)
(* earlier runs have filled; KeySpec runs the admin endpoints and one      *)
(* /track client against a table that starts empty.                        *)
(***************************************************************************)
EXTENDS Integers, Sequences, FiniteSets, TLC

\* ---------------------------------------------------------------- bounds
NumRequests == 3
Reqs == 1..NumRequests
MaxKeys == 2             \* rows the keys table can hold

\* ------------------------------------------------------ program constants
Capacity == 2            \* asyncio.Semaphore(2)
RetryTotal == 3          \* Retry(total=3, ...)
StatusForcelist == {429, 500, 502, 503, 504}

\* What one HTTP attempt can bring back: a response with a status code, or
\* a connection error raised by the transport.  The status is that of the
\* response object session.get() hands to the tracker.
StatusCodes == {200, 404} \cup StatusForcelist
Answers ==
    [kind : {"response"}, code : StatusCodes] \cup {[kind |-> "error", code |-> 0]}

Waybills == {"W1", "W2"}
\* The waybill each request asks for: both waybills occur among the requests.
WaybillOf(r) == IF r % 2 = 1 THEN "W1" ELSE "W2"

\* ------------------------------------------------- courier normalisation
\* Text is a sequence of one-character strings.
BLUEDART == <<"B","L","U","E","D","A","R","T">>
DELHIVERY == <<"D","E","L","H","I","V","E","R","Y">>

CourierInputs ==
    { <<" ","b","l","u","e","D","a","r","t">>,
      <<"d","e","l","h","i","v","e","r","y"," ">>,
      <<" ","e","k","a","r","t"," ">> }

UpperChar(c) ==
    CASE c = "a" -> "A" [] c = "b" -> "B" [] c = "d" -> "D" [] c = "e" -> "E"
      [] c = "h" -> "H" [] c = "i" -> "I" [] c = "k" -> "K" [] c = "l" -> "L"
      [] c = "r" -> "R" [] c = "t" -> "T" [] c = "u" -> "U" [] c = "v" -> "V"
      [] c = "y" -> "Y" [] OTHER -> c

Upper(s) == [i \in 1..Len(s) |-> UpperChar(s[i])]

RECURSIVE LStrip(_)
LStrip(s) == IF s # <<>> /\ Head(s) = " " THEN LStrip(Tail(s)) ELSE s

RECURSIVE RStrip(_)
RStrip(s) ==
    IF s # <<>> /\ s[Len(s)] = " " THEN RStrip(SubSeq(s, 1, Len(s) - 1)) ELSE s

Strip(s) == RStrip(LStrip(s))

\* courier = courier.strip().upper()
Normalize(s) == Upper(Strip(s))

\* ------------------------------------------------- asyncio.Semaphore(2)
\* A waiter is the future of a suspended acquire(): req is the task, woken
\* says the future has a result.
SemLocked(v, w) == v = 0 \/ Len(w) > 0

FirstUnwoken(w) ==
    IF \E i \in 1..Len(w) : ~w[i].woken
    THEN CHOOSE i \in 1..Len(w) :
            ~w[i].woken /\ \A j \in 1..(i - 1) : w[j].woken
    ELSE 0

\* _wake_up_next: the first future that is not done takes one unit.
SemWakeUpNext(v, w) ==
    LET i == FirstUnwoken(w) IN
    IF i = 0 THEN [value |-> v, waiters |-> w]
    ELSE [value |-> v - 1,
          waiters |-> [w EXCEPT ![i] = [req |-> w[i].req, woken |-> TRUE]]]

\* release(): self._value += 1; self._wake_up_next()
SemRelease(v, w) == SemWakeUpNext(v + 1, w)

RemoveWaiter(w, r) == SelectSeq(w, LAMBDA x : x.req # r)

IsWoken(w, r) == \E i \in 1..Len(w) : w[i].req = r /\ w[i].woken

\* The rest of acquire() after `await fut` returns: the future is removed
\* and, if a unit is free, the next waiter is woken.
SemAfterWake(v, w, r) ==
    LET w2 == RemoveWaiter(w, r) IN
    IF v > 0 THEN SemWakeUpNext(v, w2) ELSE [value |-> v, waiters |-> w2]

\* acquire() cancelled while suspended: the future is removed; a unit that
\* had already been handed to it is given back.
SemCancelWaiter(v, w, r) ==
    LET w2 == RemoveWaiter(w, r) IN
    IF IsWoken(w, r) THEN SemWakeUpNext(v + 1, w2)
    ELSE [value |-> v, waiters |-> w2]

\* ------------------------------------------------------ Blue Dart pages
\* The body of a 200 response: fragId is the waybill of the div whose id is
\* SCAN<waybill> ("" when the page has no such div), table and tbody say
\* whether those elements exist under it, rows are the tr elements, each a
\* sequence of td texts.
Cells == { <<" ","x"," ">>, <<" ">> }
Rows == { << <<"x">>, <<"x">>, <<"x">> >> }
        \cup { <<a, <<"x">>, <<"x">>, d>> : a \in Cells, d \in Cells }
Pages ==
    { p \in [fragId : Waybills \cup {""}, table : BOOLEAN, tbody : BOOLEAN,
             rows : {<<>>} \cup { <<row>> : row \in Rows }] :
        /\ (p.fragId = "" => ~p.table)
        /\ (p.tbody => p.table)
        /\ (p.rows # <<>> => p.tbody) }
NoPage == [fragId |-> "", table |-> FALSE, tbody |-> FALSE, rows |-> <<>>]

BlueDartUrl(w) == <<"https://www.bluedart.com/trackdartresultthirdparty?trackFor=0&trackNo=", w>>
DelhiveryUrl(w) == <<"https://www.delhivery.com/track-v2/package/", w>>

\* An optional value is a sequence: <<>> is None, <<e>> is the value e.
None == <<>>

\* A parser that reads what it can instead of raising: a cell it cannot
\* find is left empty.
BlueDartParseLenient(p, w) ==
    IF p.fragId # w THEN [kind |-> "nofrag", event |-> None]
    ELSE [kind |-> "event",
          event |-> << [Courier |-> "Blue Dart", Location |-> <<>>,
                        Details |-> <<>>, Date |-> <<>>, Time |-> <<>>,
                        Link |-> BlueDartUrl(w)] >>]

\* soup.find / container.find("table").find("tbody").find_all("tr")[0] /
\* cols[0..3]: the event, or "raise" where Python raises (find on None,
\* index out of range), or "nofrag" where the container is missing.
BlueDartParse(p, w) ==
    IF p.fragId # w THEN [kind |-> "nofrag", event |-> None]
    ELSE IF ~p.table \/ ~p.tbody THEN [kind |-> "raise", event |-> None]
    ELSE IF Len(p.rows) = 0 THEN [kind |-> "raise", event |-> None]
    ELSE IF Len(p.rows[1]) < 4 THEN [kind |-> "raise", event |-> None]
    ELSE [kind |-> "event",
          event |-> << [Courier |-> "Blue Dart",
                        Location |-> Strip(p.rows[1][1]),
                        Details |-> Strip(p.rows[1][2]),
                        Date |-> Strip(p.rows[1][3]),
                        Time |-> Strip(p.rows[1][4]),
                        Link |-> BlueDartUrl(w)] >>]

\* ---------------------------------------------------- Delhivery DOM states
\* What the rendered page holds when the wait ends: the delivered header,
\* the live dot, the dot's ancestor row, the bold status label and the
\* description label inside the row.
Doms ==
    { d \in [delivered : BOOLEAN, dot : BOOLEAN, row : BOOLEAN,
             status : BOOLEAN, desc : BOOLEAN] :
        (d.row => d.dot) /\ (d.status => d.row) /\ (d.desc => d.row) }
NoDom == [delivered |-> FALSE, dot |-> FALSE, row |-> FALSE,
          status |-> FALSE, desc |-> FALSE]

StatusText == <<"I","n"," ","T","r","a","n","s","i","t">>
DescText == <<"A","r","r","i","v","e","d">>
UpdateAvailable == <<"U","p","d","a","t","e"," ","a","v","a","i","l","a","b","l","e">>
DeliveredDetails ==
    <<"D","e","l","i","v","e","r","e","d",":"," ","Y","o","u","r"," ","o","r","d","e","r",
      " ","h","a","s"," ","b","e","e","n"," ","d","e","l","i","v","e","r","e","d">>

\* wait.until(presence of delivered header | dot): TRUE when it times out.
WaitTimesOut(d) == ~d.delivered /\ ~d.dot

\* An extraction without the inner try: a missing description ends it.
DelhiveryExtractStrict(d, w) ==
    IF d.delivered
    THEN << [Courier |-> "Delhivery", Location |-> "Final Destination",
             Details |-> DeliveredDetails, Date |-> "today", Time |-> "now",
             Link |-> DelhiveryUrl(w)] >>
    ELSE IF ~d.row \/ ~d.status \/ ~d.desc THEN None
    ELSE << [Courier |-> "Delhivery", Location |-> "Tracking Timeline",
             Details |-> StatusText \o <<":"," ">> \o DescText,
             Date |-> "today", Time |-> "now",
             Link |-> DelhiveryUrl(w)] >>

\* An extraction that looks at the live dot before the delivered header.
DelhiveryExtractDotFirst(d, w) ==
    IF d.dot /\ d.row /\ d.status
    THEN << [Courier |-> "Delhivery", Location |-> "Tracking Timeline",
             Details |-> StatusText \o <<":"," ">> \o
                         (IF d.desc THEN DescText ELSE UpdateAvailable),
             Date |-> "today", Time |-> "now",
             Link |-> DelhiveryUrl(w)] >>
    ELSE IF d.delivered
    THEN << [Courier |-> "Delhivery", Location |-> "Final Destination",
             Details |-> DeliveredDetails, Date |-> "today", Time |-> "now",
             Link |-> DelhiveryUrl(w)] >>
    ELSE None

\* Lines 165-198: the event, or None where find_element raises.
DelhiveryExtract(d, w) ==
    IF d.delivered
    THEN << [Courier |-> "Delhivery", Location |-> "Final Destination",
             Details |-> DeliveredDetails, Date |-> "today", Time |-> "now",
             Link |-> DelhiveryUrl(w)] >>
    ELSE IF ~d.row \/ ~d.status THEN None
    ELSE << [Courier |-> "Delhivery", Location |-> "Tracking Timeline",
             Details |-> StatusText \o <<":"," ">> \o
                         (IF d.desc THEN DescText ELSE UpdateAvailable),
             Date |-> "today", Time |-> "now",
             Link |-> DelhiveryUrl(w)] >>

\* Defective retry policies: one that counts total as the number of
\* attempts, one that retries every answer other than a 200.
RetryExhaustedAtZero(total) == total <= 0
IsRetryNon200(a) == a.kind = "error" \/ a.code # 200

\* ------------------------------------------------------- urllib3 Retry
\* Retry(total=3, status_forcelist=[...]): a response is retried when its
\* status is in the forcelist; increment() takes one from total and the
\* policy is exhausted when total has gone below zero.
IsRetry(a) == a.kind = "error" \/ a.code \in StatusForcelist
RetryIncrement(total) == total - 1
RetryExhausted(total) == total < 0

\* ------------------------------------------------------- BrowserManager
\* Variants of __exit__ with a defect: one never quits, one quits only when
\* the with body ended without an exception.
BrowserManagerExitNoQuit(d, e) == d
BrowserManagerExitOnSuccess(d, e) ==
    IF d # "none" /\ e = "none" THEN "quit" ELSE d

\* __exit__(exc_type, ...): quit the driver if __enter__ got as far as
\* creating one, whatever exception e the with body ended with.
BrowserManagerExit(d, e) == IF d # "none" THEN "quit" ELSE d

\* A hand-written release that is skipped when an exception is in flight.
AsyncWithExitOnSuccess(v, w, e) ==
    IF e = "none" THEN SemRelease(v, w) ELSE [value |-> v, waiters |-> w]

\* acquire() called by hand and never paired with a release().
AsyncWithExitNever(v, w, e) == [value |-> v, waiters |-> w]

\* `async with chrome_semaphore:` on the way out: release(), whatever
\* exception e is in flight.
AsyncWithExit(v, w, e) == SemRelease(v, w)

\* The two scopes nested the other way round: the permit is given back
\* before the browser is torn down.
ScopeExitNextSwapped(p) ==
    CASE p = "dlv_check" -> "release"
      [] p = "release" -> "exit"
      [] p = "exit" -> "except"

\* The nesting of lines 146-148 on the way out of the with body: first
\* BrowserManager.__exit__, then the semaphore's __aexit__, then the except
\* clauses of the enclosing try.
ScopeExitNext(p) ==
    CASE p = "dlv_check" -> "exit"
      [] p = "exit" -> "release"
      [] p = "release" -> "except"

\* ------------------------------------------------------------ API keys
\* Text is a sequence of characters; the X-API-Key header is optional:
\* None when the request has no such header.
MasterKey == <<"m","k">>
Secrets == { <<"a">>, <<"b">> }        \* secrets.token_urlsafe(32)
Names == { "app" }                     \* the name parameter
Digit == <<"1","2","3","4","5","6","7","8","9">>
KeyIds == 1..MaxKeys                   \* the key_id parameter

\* f"{key_id}.{raw_key}"
Token(k, raw) == <<Digit[k], ".">> \o raw

\* int(key_id_str): <<n>>, or None where it raises ValueError.
DigitChars == {Digit[n] : n \in 1..9}
DigitValue == [c \in DigitChars |-> CHOOSE n \in 1..9 : Digit[n] = c]
ToInt(t) ==
    IF Len(t) = 1 /\ t[1] \in DigitChars THEN <<DigitValue[t[1]]>> ELSE None

\* The place of the first "." in t, 0 when it has none.
FirstDot(t) ==
    IF \A i \in 1..Len(t) : t[i] # "." THEN 0
    ELSE CHOOSE i \in 1..Len(t) : t[i] = "." /\ \A j \in 1..(i - 1) : t[j] # "."

\* pwd_context.hash / pwd_context.verify: bcrypt with a fresh salt.
Hash(raw, salt) == [salt |-> salt, digest |-> <<salt>> \o raw]
Verify(raw, h) == h.digest = <<h.salt>> \o raw

\* What the X-API-Key header of a request can be: absent, a text without
\* ".", a text whose id part is no integer, or a token.
ApiKeyHeaders ==
    {None, << <<"a">> >>, << <<"x", ".", "a">> >>}
        \cup { <<Token(k, raw)>> : k \in KeyIds, raw \in Secrets }
AdminHeaders == {None, <<MasterKey>>, << <<"m","x">> >>}

\* A lookup that forgets the is_active column.
SelectAnyRow(ks, id) == IF id \in DOMAIN ks THEN <<ks[id]>> ELSE None

\* SELECT key_hash FROM keys WHERE id = ? AND is_active = 1, fetchone():
\* the row, or None.
SelectActiveRow(ks, id) ==
    IF id \in DOMAIN ks /\ ks[id].is_active THEN <<ks[id]>> ELSE None

\* APIKeyManager.validate_key: the text is split at its first ".", the id
\* part read as an integer, the active row of that id looked up and the
\* rest verified against the row's hash.
ValidateKey(ks, t) ==
    LET dot == FirstDot(t) IN
    IF dot = 0 THEN FALSE
    ELSE LET id == ToInt(SubSeq(t, 1, dot - 1))
             raw == SubSeq(t, dot + 1, Len(t))
         IN  IF id = None THEN FALSE
             ELSE LET result == SelectActiveRow(ks, id[1]) IN
                  IF result = None THEN FALSE
                  ELSE Verify(raw, result[1].key_hash)

\* APIKeyManager.generate_key: INSERT, the id is the next AUTOINCREMENT
\* value, is_active defaults to 1.
GenerateKey(ks, name, raw) ==
    Append(ks, [name |-> name, key_hash |-> Hash(raw, Len(ks) + 1),
                is_active |-> TRUE])

\* APIKeyManager.revoke_key: UPDATE ... WHERE id = ?; success says whether
\* the statement matched a row.
RevokeKey(ks, k) ==
    IF k \in DOMAIN ks
    THEN [keys |-> [ks EXCEPT ![k].is_active = FALSE], success |-> TRUE]
    ELSE [keys |-> ks, success |-> FALSE]

\* APIKeyManager.list_keys (the order of the rows is left out).
ListKeys(ks) ==
    { [id |-> k, name |-> ks[k].name, is_active |-> ks[k].is_active] :
        k \in DOMAIN ks }

\* get_api_key: TRUE when the request goes on to the handler, FALSE when it
\* is answered 401.
GetApiKey(h, ks) ==
    IF h = None \/ h = << <<>> >> THEN FALSE ELSE ValidateKey(ks, h[1])

\* get_admin_key: the status it ends with, 200 standing for the return of
\* the key.  m is os.getenv("API_KEY"), None when unset.  compare_digest
\* raises TypeError for a None argument, which nothing catches: the server
\* answers 500.
GetAdminKey(h, m) ==
    IF m = None THEN 500
    ELSE IF h = None THEN 500
    ELSE IF h[1] = m[1] THEN 200
    ELSE 403

\* ------------------------------------------------------- track_shipment
\* `if not event: raise HTTPException(404)`
NotEvent(e) == e = None

\* An if/elif chain without its final else: whatever is not BLUEDART is
\* handled as DELHIVERY.
BranchNoElse(c) == IF c = BLUEDART THEN "bd_get" ELSE "acquire"

\* Lines 131, 142, 167: the branch the normalised courier selects.
Branch(c) ==
    IF c = BLUEDART THEN "bd_get"
    ELSE IF c = DELHIVERY THEN "acquire"
    ELSE "respond"

\* A fetch that navigates again when the render failed.
AfterFailedRenderRetry == "navigate"

\* Lines 199-201 and 152: a failed render returns None to the handler; the
\* fetch is not attempted again.
AfterFailedRender == "dlv_check"

\* An except clause that reports every exception as a missing event.
ExceptStatusAlways404(e) == 404

\* An except clause that turns every exception into a 500.
ExceptStatusAlways500(e) == 500

\* except HTTPException: raise / except Exception: HTTPException(500)
ExceptStatus(e) == IF e = "HTTPException" THEN 404 ELSE 500

VARIABLES
    pc,           \* position of each request
    running,      \* the task that owns the event loop, 0 when it is idle
    sem_value,    \* chrome_semaphore._value
    sem_waiters,  \* chrome_semaphore._waiters
    courier,      \* the courier parameter (raw, then normalised)
    waybill,      \* the waybill parameter
    retries,      \* Retry.total of the request's BlueDartTracker session
    attempts,     \* HTTP attempts made by the request's fetch
    last,         \* the latest answer session.get has seen
    allForced,    \* every answer so far had a status of the forcelist
    page,         \* the body of the 200 response
    driver,       \* BrowserManager.driver: "none", "live", "quit"
    dom,          \* the DOM when the wait ended
    event,        \* the tracker's result
    exc,          \* the exception in flight: "none", "HTTPException", "Exception"
    fault,        \* why the tracker produced no event
    response,     \* status code sent, 0 before that, -1 when cancelled
    log,          \* per request, the resource events in order
    master,       \* os.getenv("API_KEY"), optional
    keys,         \* the rows of the keys table, by id
    admin         \* the answer to the latest admin request

vars == <<pc, running, sem_value, sem_waiters, courier, waybill, retries,
          attempts, last, allForced, page, driver, dom, event, exc, fault,
          response, log, master, keys, admin>>

keyVars == <<master, keys, admin>>
trackVars == <<pc, running, sem_value, sem_waiters, courier, waybill, retries,
               attempts, last, allForced, page, driver, dom, event, exc,
               fault, response, log>>
sem == <<sem_value, sem_waiters>>
bdLocals == <<retries, attempts, last, allForced, page>>
dlvLocals == <<dom>>

NoAnswer == [kind |-> "none", code |-> 0]
NoAdmin == [op |-> "none", status |-> 0, body |-> None]

\* The keys table as earlier runs of the server left it in api_keys.db:
\* key 1 is active, key 2 has been revoked.
StoredKeys ==
    << [name |-> "app", key_hash |-> Hash(<<"a">>, 1), is_active |-> TRUE],
       [name |-> "app", key_hash |-> Hash(<<"b">>, 2), is_active |-> FALSE] >>

InitTrack ==
    /\ pc = [r \in Reqs |-> "idle"]
    /\ running = 0
    /\ sem_value = Capacity
    /\ sem_waiters = <<>>
    /\ courier = [r \in Reqs |-> <<>>]
    /\ waybill = [r \in Reqs |-> ""]
    /\ retries = [r \in Reqs |-> 0]
    /\ attempts = [r \in Reqs |-> 0]
    /\ last = [r \in Reqs |-> NoAnswer]
    /\ allForced = [r \in Reqs |-> TRUE]
    /\ page = [r \in Reqs |-> NoPage]
    /\ driver = [r \in Reqs |-> "none"]
    /\ dom = [r \in Reqs |-> NoDom]
    /\ event = [r \in Reqs |-> None]
    /\ exc = [r \in Reqs |-> "none"]
    /\ fault = [r \in Reqs |-> "none"]
    /\ response = [r \in Reqs |-> 0]
    /\ log = [r \in Reqs |-> <<>>]

\* The server starts on a database that already has keys.
Init ==
    /\ InitTrack
    /\ master = <<MasterKey>>
    /\ keys = StoredKeys
    /\ admin = NoAdmin

\* A GET /track request comes in.
Arrive(r) ==
    /\ pc[r] = "idle"
    /\ \A q \in Reqs : q < r => pc[q] # "idle"
    /\ pc' = [pc EXCEPT ![r] = "auth"]
    /\ UNCHANGED <<running, sem, courier, waybill, bdLocals, driver, dom,
                   event, exc, fault, response, log>>
    /\ UNCHANGED keyVars

\* The dependencies of the handler are resolved while the request's task is
\* suspended: get_api_key runs in the thread pool on the header h and either
\* the request is answered 401 or the key validates; then the query
\* parameters are read and the handler is ready to run.
Admit(r, ok) ==
    /\ pc[r] = "auth"
    /\ IF ok
       THEN /\ pc' = [pc EXCEPT ![r] = "ready"]
            /\ \E c \in CourierInputs : courier' = [courier EXCEPT ![r] = c]
            /\ waybill' = [waybill EXCEPT ![r] = WaybillOf(r)]
            /\ UNCHANGED response
       ELSE /\ pc' = [pc EXCEPT ![r] = "done"]
            /\ response' = [response EXCEPT ![r] = 401]
            /\ UNCHANGED <<courier, waybill>>
    /\ UNCHANGED <<running, sem, bdLocals, driver, dom, event, exc, fault, log>>
    /\ UNCHANGED keyVars

\* The step of a request whose header is h.
Auth(r, h) == Admit(r, GetApiKey(h, keys))

\* The step for some header: one case for each result get_api_key has on
\* the headers a request can carry.
Authenticate(r) ==
    /\ pc[r] = "auth"
    /\ \E ok \in {GetApiKey(h, keys) : h \in ApiKeyHeaders} : Admit(r, ok)

\* The event loop is idle and gives itself to a task that can run: a
\* handler whose dependencies are resolved, or an acquire() whose future
\* has a result, which then finishes (line 146).
Schedule(r) ==
    /\ running = 0
    /\ pc[r] = "ready" \/ (pc[r] = "waiting" /\ IsWoken(sem_waiters, r))
    /\ IF pc[r] = "ready"
       THEN /\ pc' = [pc EXCEPT ![r] = "dispatch"]
            /\ UNCHANGED <<sem, log>>
       ELSE /\ LET s == SemAfterWake(sem_value, sem_waiters, r) IN
                  /\ sem_value' = s.value
                  /\ sem_waiters' = s.waiters
            /\ pc' = [pc EXCEPT ![r] = "enter"]
            /\ log' = [log EXCEPT ![r] = Append(@, "acquire")]
    /\ running' = r
    /\ UNCHANGED <<courier, waybill, bdLocals, driver, dom, event, exc, fault,
                   response>>
    /\ UNCHANGED keyVars

\* The request's task is cancelled where it is suspended: before the
\* handler has started, or inside chrome_semaphore.acquire().  CancelledError
\* is not an Exception, so neither except clause of the handler catches it.
Cancel(r) ==
    /\ pc[r] \in {"auth", "ready", "waiting"}
    /\ IF pc[r] = "waiting"
       THEN LET s == SemCancelWaiter(sem_value, sem_waiters, r) IN
               /\ sem_value' = s.value
               /\ sem_waiters' = s.waiters
       ELSE UNCHANGED sem
    /\ pc' = [pc EXCEPT ![r] = "done"]
    /\ response' = [response EXCEPT ![r] = -1]
    /\ courier' = [courier EXCEPT ![r] = <<>>]
    /\ waybill' = [waybill EXCEPT ![r] = ""]
    /\ UNCHANGED <<running, bdLocals, driver, dom, event, exc, fault, log>>
    /\ UNCHANGED keyVars

\* Lines 129-142 and 167-170: normalise the courier and pick the branch.
Dispatch(r) ==
    /\ pc[r] = "dispatch" /\ running = r
    /\ LET c == Normalize(courier[r]) IN
          /\ courier' = [courier EXCEPT ![r] = c]
          /\ pc' = [pc EXCEPT ![r] = Branch(c)]
          /\ retries' = [retries EXCEPT ![r] =
                            IF Branch(c) = "bd_get" THEN RetryTotal ELSE @]
          /\ response' = [response EXCEPT ![r] =
                             IF Branch(c) = "respond" THEN 400 ELSE @]
    /\ UNCHANGED <<running, sem, waybill, attempts, last, allForced, page,
                   driver, dom, event, exc, fault, log>>
    /\ UNCHANGED keyVars

\* ------------------------------------------------------------ BLUEDART
\* One HTTP attempt of session.get (lines 104-115).  A retryable answer
\* spends one retry, or ends the fetch with the exception the adapter
\* raises when the policy is exhausted, which line 136 turns into None.
BdGet(r) ==
    /\ pc[r] = "bd_get" /\ running = r
    /\ \E a \in Answers :
          /\ attempts' = [attempts EXCEPT ![r] = @ + 1]
          /\ last' = [last EXCEPT ![r] = a]
          /\ allForced' = [allForced EXCEPT ![r] =
                              @ /\ a.kind = "response" /\ a.code \in StatusForcelist]
          /\ IF IsRetry(a)
             THEN /\ retries' = [retries EXCEPT ![r] = RetryIncrement(@)]
                  /\ IF RetryExhausted(RetryIncrement(retries[r]))
                     THEN /\ pc' = [pc EXCEPT ![r] = "bd_check"]
                          /\ fault' = [fault EXCEPT ![r] = "exhausted"]
                     ELSE UNCHANGED <<pc, fault>>
             ELSE IF a.code # 200
             THEN /\ pc' = [pc EXCEPT ![r] = "bd_check"]
                  /\ fault' = [fault EXCEPT ![r] = "status"]
                  /\ UNCHANGED retries
             ELSE /\ pc' = [pc EXCEPT ![r] = "bd_parse"]
                  /\ UNCHANGED <<retries, fault>>
    /\ UNCHANGED page
    /\ UNCHANGED <<running, sem, courier, waybill, driver, dom, event, exc,
                   response, log>>
    /\ UNCHANGED keyVars

\* Lines 117-138: the body of the 200 response is parsed: find the
\* fragment and read the first row.
BdParse(r) ==
    /\ pc[r] = "bd_parse" /\ running = r
    /\ \E p \in Pages :
          LET res == BlueDartParse(p, waybill[r]) IN
             /\ page' = [page EXCEPT ![r] = p]
             /\ event' = [event EXCEPT ![r] = res.event]
             /\ fault' = [fault EXCEPT ![r] =
                             IF res.kind = "event" THEN "none" ELSE res.kind]
    /\ pc' = [pc EXCEPT ![r] = "bd_check"]
    /\ UNCHANGED <<running, sem, courier, waybill, retries, attempts, last,
                   allForced, driver, dom, exc, response, log>>
    /\ UNCHANGED keyVars

\* Lines 135-140.
BdCheck(r) ==
    /\ pc[r] = "bd_check" /\ running = r
    /\ response' = [response EXCEPT ![r] = IF NotEvent(event[r]) THEN 404 ELSE 200]
    /\ pc' = [pc EXCEPT ![r] = "respond"]
    /\ UNCHANGED <<running, sem, courier, waybill, bdLocals, driver, dom,
                   event, exc, fault, log>>
    /\ UNCHANGED keyVars

\* ----------------------------------------------------------- DELHIVERY
\* `async with chrome_semaphore` on entry (line 146): acquire() takes a unit
\* at once when the semaphore is not locked, else it queues a future and
\* the task is suspended.
Acquire(r) ==
    /\ pc[r] = "acquire" /\ running = r
    /\ IF ~SemLocked(sem_value, sem_waiters)
       THEN /\ sem_value' = sem_value - 1
            /\ pc' = [pc EXCEPT ![r] = "enter"]
            /\ log' = [log EXCEPT ![r] = Append(@, "acquire")]
            /\ UNCHANGED <<sem_waiters, running>>
       ELSE /\ sem_waiters' = Append(sem_waiters, [req |-> r, woken |-> FALSE])
            /\ pc' = [pc EXCEPT ![r] = "waiting"]
            /\ running' = 0
            /\ UNCHANGED <<sem_value, log>>
    /\ UNCHANGED <<courier, waybill, bdLocals, driver, dom, event, exc, fault,
                   response>>
    /\ UNCHANGED keyVars

\* BrowserManager().__enter__ (lines 49-76): the driver starts, or driver
\* resolution or webdriver.Chrome raises and the with body is skipped.
Enter(r) ==
    /\ pc[r] = "enter" /\ running = r
    /\ \E started \in BOOLEAN :
          IF started
          THEN /\ driver' = [driver EXCEPT ![r] = "live"]
               /\ log' = [log EXCEPT ![r] = Append(@, "construct")]
               /\ pc' = [pc EXCEPT ![r] = "navigate"]
               /\ UNCHANGED <<exc, fault>>
          ELSE /\ exc' = [exc EXCEPT ![r] = "Exception"]
               /\ fault' = [fault EXCEPT ![r] = "launch"]
               /\ pc' = [pc EXCEPT ![r] = "release"]
               /\ UNCHANGED <<driver, log>>
    /\ UNCHANGED <<running, sem, courier, waybill, bdLocals, dom, event,
                   response>>
    /\ UNCHANGED keyVars

\* Lines 150 and 154-163: driver.get, then the bounded wait for either
\* marker.  Both are blocking calls: the task keeps the loop.
Navigate(r) ==
    /\ pc[r] = "navigate" /\ running = r
    /\ log' = [log EXCEPT ![r] = Append(@, "fetch")]
    /\ \E loaded \in BOOLEAN, d \in Doms :
          IF ~loaded
          THEN /\ fault' = [fault EXCEPT ![r] = "navigation"]
               /\ pc' = [pc EXCEPT ![r] = AfterFailedRender]
               /\ UNCHANGED dom
          ELSE IF WaitTimesOut(d)
          THEN /\ fault' = [fault EXCEPT ![r] = "timeout"]
               /\ pc' = [pc EXCEPT ![r] = AfterFailedRender]
               /\ UNCHANGED dom
          ELSE /\ dom' = [dom EXCEPT ![r] = d]
               /\ pc' = [pc EXCEPT ![r] = "extract"]
               /\ UNCHANGED fault
    /\ UNCHANGED <<running, sem, courier, waybill, bdLocals, driver, event,
                   exc, response>>
    /\ UNCHANGED keyVars

\* Lines 165-201.
Extract(r) ==
    /\ pc[r] = "extract" /\ running = r
    /\ LET e == DelhiveryExtract(dom[r], waybill[r]) IN
          /\ event' = [event EXCEPT ![r] = e]
          /\ fault' = [fault EXCEPT ![r] = IF e = None THEN "extraction" ELSE "none"]
    /\ pc' = [pc EXCEPT ![r] = "dlv_check"]
    /\ UNCHANGED <<running, sem, courier, waybill, bdLocals, driver, dom, exc,
                   response, log>>
    /\ UNCHANGED keyVars

\* Lines 152-158.
DlvCheck(r) ==
    /\ pc[r] = "dlv_check" /\ running = r
    /\ exc' = [exc EXCEPT ![r] = IF NotEvent(event[r]) THEN "HTTPException" ELSE "none"]
    /\ pc' = [pc EXCEPT ![r] = ScopeExitNext("dlv_check")]
    /\ UNCHANGED <<running, sem, courier, waybill, bdLocals, driver, dom,
                   event, fault, response, log>>
    /\ UNCHANGED keyVars

\* BrowserManager.__exit__ (lines 78-81).  The Chrome driver's quit() keeps
\* to itself whatever goes wrong while the browser shuts down, so __exit__
\* adds no exception of its own.
Exit(r) ==
    /\ pc[r] = "exit" /\ running = r
    /\ driver' = [driver EXCEPT ![r] = BrowserManagerExit(@, exc[r])]
    /\ log' = [log EXCEPT ![r] =
                  IF driver[r] = "live" /\ driver'[r] = "quit"
                  THEN Append(@, "teardown") ELSE @]
    /\ pc' = [pc EXCEPT ![r] = ScopeExitNext("exit")]
    /\ UNCHANGED <<running, sem, courier, waybill, bdLocals, dom, event, exc,
                   fault, response>>
    /\ UNCHANGED keyVars

\* `async with chrome_semaphore` on exit: release().
Release(r) ==
    /\ pc[r] = "release" /\ running = r
    /\ LET s == AsyncWithExit(sem_value, sem_waiters, exc[r]) IN
          /\ sem_value' = s.value
          /\ sem_waiters' = s.waiters
    /\ log' = [log EXCEPT ![r] = Append(@, "release")]
    /\ pc' = [pc EXCEPT ![r] = ScopeExitNext("release")]
    /\ UNCHANGED <<running, courier, waybill, bdLocals, driver, dom, event,
                   exc, fault, response>>
    /\ UNCHANGED keyVars

\* Lines 158-165: the event is returned, or the exception is mapped.
Except(r) ==
    /\ pc[r] = "except" /\ running = r
    /\ response' = [response EXCEPT ![r] =
                       IF exc[r] = "none" THEN 200 ELSE ExceptStatus(exc[r])]
    /\ pc' = [pc EXCEPT ![r] = "respond"]
    /\ UNCHANGED <<running, sem, courier, waybill, bdLocals, driver, dom,
                   event, exc, fault, log>>
    /\ UNCHANGED keyVars

\* The handler returns or raises: its locals are gone, the response is
\* sent and the loop is free.
Finish(r) ==
    /\ pc[r] = "respond" /\ running = r
    /\ pc' = [pc EXCEPT ![r] = "done"]
    /\ running' = 0
    /\ courier' = [courier EXCEPT ![r] = <<>>]
    /\ waybill' = [waybill EXCEPT ![r] = ""]
    /\ retries' = [retries EXCEPT ![r] = 0]
    /\ attempts' = [attempts EXCEPT ![r] = 0]
    /\ last' = [last EXCEPT ![r] = NoAnswer]
    /\ allForced' = [allForced EXCEPT ![r] = TRUE]
    /\ page' = [page EXCEPT ![r] = NoPage]
    /\ dom' = [dom EXCEPT ![r] = NoDom]
    /\ event' = [event EXCEPT ![r] = None]
    /\ exc' = [exc EXCEPT ![r] = "none"]
    /\ fault' = [fault EXCEPT ![r] = "none"]
    /\ UNCHANGED <<sem, driver, response, log>>
    /\ UNCHANGED keyVars

Next ==
    \E r \in Reqs :
        \/ Arrive(r) \/ Authenticate(r) \/ Schedule(r) \/ Cancel(r)
        \/ Dispatch(r)
        \/ BdGet(r) \/ BdParse(r) \/ BdCheck(r)
        \/ Acquire(r) \/ Enter(r) \/ Navigate(r) \/ Extract(r) \/ DlvCheck(r)
        \/ Exit(r) \/ Release(r) \/ Except(r)
        \/ Finish(r)

Spec == Init /\ [][Next]_vars

\* The steps the event loop takes for request r.
Run(r) ==
    \/ Schedule(r) \/ Dispatch(r)
    \/ BdGet(r) \/ BdParse(r) \/ BdCheck(r)
    \/ Acquire(r) \/ Enter(r) \/ Navigate(r) \/ Extract(r) \/ DlvCheck(r)
    \/ Exit(r) \/ Release(r) \/ Except(r)
    \/ Finish(r)

\* The steps the server takes for request r: the dependency call in the
\* thread pool, then the handler on the event loop.
Step(r) == Authenticate(r) \/ Run(r)

\* The event loop runs every task that can run; nothing obliges a client to
\* send a request or to abandon one, and nothing is assumed of the thread
\* pool.
FairSpec == Spec /\ \A r \in Reqs : WF_vars(Run(r))

\* ---------------------------------------------------- admin operations
\* Each admin handler is a coroutine that awaits nothing: it runs when the
\* event loop is free, after its dependency get_admin_key has let it
\* through, and is over in one step.
\* POST /admin/keys/generate (api.py lines 71-87)
AdminGenerate(h) ==
    /\ running = 0
    /\ LET st == GetAdminKey(h, master) IN
          IF st # 200
          THEN /\ admin' = [op |-> "generate", status |-> st, body |-> None]
               /\ UNCHANGED keys
          ELSE /\ Len(keys) < MaxKeys
               /\ \E name \in Names, raw \in Secrets :
                     /\ keys' = GenerateKey(keys, name, raw)
                     /\ admin' = [op |-> "generate", status |-> 200,
                                  body |-> <<Token(Len(keys) + 1, raw)>>]
    /\ UNCHANGED <<master, trackVars>>

\* GET /admin/keys (api.py lines 90-93)
AdminList(h) ==
    /\ running = 0
    /\ LET st == GetAdminKey(h, master) IN
          admin' = [op |-> "list", status |-> st,
                    body |-> IF st = 200 THEN <<ListKeys(keys)>> ELSE None]
    /\ UNCHANGED <<master, keys, trackVars>>

\* POST /admin/keys/revoke (api.py lines 96-110)
AdminRevoke(h, k) ==
    /\ running = 0
    /\ LET st == GetAdminKey(h, master) IN
          IF st # 200
          THEN /\ admin' = [op |-> "revoke", status |-> st, body |-> None]
               /\ UNCHANGED keys
          ELSE LET res == RevokeKey(keys, k) IN
               /\ keys' = res.keys
               /\ admin' = [op |-> "revoke",
                            status |-> IF res.success THEN 200 ELSE 404,
                            body |-> <<k>>]
    /\ UNCHANGED <<master, trackVars>>

\* The server starts on an empty keys table (setup() has just created it),
\* with or without API_KEY in its environment.
KeyInit ==
    /\ InitTrack
    /\ master \in {None, <<MasterKey>>}
    /\ keys = <<>>
    /\ admin = NoAdmin

\* The admin client and one /track client.
KeyNext ==
    \/ \E h \in AdminHeaders :
          \/ AdminGenerate(h)
          \/ AdminList(h)
          \/ \E k \in KeyIds : AdminRevoke(h, k)
    \/ Arrive(1) \/ Cancel(1) \/ Step(1)

KeySpec == KeyInit /\ [][KeyNext]_vars

\* ------------------------------------------------------------ vocabulary
Count(s, x) == Cardinality({i \in 1..Len(s) : s[i] = x})
IsPrefix(s, t) == Len(s) <= Len(t) /\ SubSeq(t, 1, Len(s)) = s

LiveSessions == {r \in Reqs : driver[r] = "live"}
\* r has taken a permit and not given it back
Holds(r) == Count(log[r], "acquire") > Count(log[r], "release")
Holders == {r \in Reqs : Holds(r)}
WokenWaiters == {i \in 1..Len(sem_waiters) : sem_waiters[i].woken}
AllDone == \A r \in Reqs : pc[r] = "done"
IsDelhivery(r) == Normalize(courier[r]) = DELHIVERY
IsBlueDart(r) == Normalize(courier[r]) = BLUEDART
\* t occurs in s / s ends with t
Contains(s, t) ==
    \E i \in 0..(Len(s) - Len(t)) : SubSeq(s, i + 1, i + Len(t)) = t
EndsWith(s, t) ==
    Len(t) <= Len(s) /\ SubSeq(s, Len(s) - Len(t) + 1, Len(s)) = t

\* ------------------------------------------------------------------ C1
\* C1: in every reachable state, whatever the number and interleaving of
\* /track requests, at most 2 browser sessions are live (created by
\* BrowserManager.__enter__ and not yet quit).
C1_LiveSessionsBounded == Cardinality(LiveSessions) <= 2

\* A session is live while the two other requests, both for DELHIVERY, are
\* in flight and ready to run.
C1_Witness ==
    \E r \in Reqs :
        /\ driver[r] = "live"
        /\ Cardinality({q \in Reqs \ {r} : pc[q] = "ready" /\ IsDelhivery(q)}) >= 2

\* ------------------------------------------------------------------ C2
\* C2: permits are conserved: at every moment the semaphore counter plus
\* the permits held (by requests inside the scope or handed to a woken
\* waiter) is 2, so no permit is released twice, and once every request has
\* completed, by whichever exit path, the counter is back at 2 and nothing
\* is queued.
C2_PermitAccounting ==
    /\ sem_value + Cardinality(Holders) + Cardinality(WokenWaiters) = Capacity
    /\ AllDone => sem_value = Capacity /\ sem_waiters = <<>>

\* All requests are over and among them one returned an event, one ended 404
\* after its browser fetch produced nothing, one ended 500 because the
\* browser did not start.
C2_Witness ==
    /\ AllDone
    /\ \E a, b, c \in Reqs :
          /\ response[a] = 200 /\ driver[a] = "quit"
          /\ response[b] = 404 /\ driver[b] = "quit"
          /\ response[c] = 500 /\ driver[c] = "none" /\ log[c] = <<"acquire", "release">>

\* ------------------------------------------------------------------ C3
\* C3: once a request has left the BrowserManager scope (by returning an
\* event, by the 404 raised inside the scope, or by an exception), and ever
\* after, the session it created is not live: the driver was quit.
C3_SessionTerminated ==
    \A r \in Reqs :
        pc[r] \in {"release", "except", "respond", "done"} => driver[r] # "live"

\* A request that created a session has completed on the 404 path and its
\* driver is quit.
C3_Witness ==
    \E r \in Reqs :
        /\ pc[r] = "done" /\ response[r] = 404
        /\ driver[r] = "quit" /\ "construct" \in {log[r][i] : i \in 1..Len(log[r])}

\* ------------------------------------------------------------------ C4
FullOrder == <<"acquire", "construct", "fetch", "teardown", "release">>

\* C4: the resource events of a DELHIVERY request occur in the order permit
\* acquire, session construction, fetch, session teardown, permit release
\* (acquire, release alone when the browser does not start); a live session
\* belongs to a request that holds a permit, so no session is constructed
\* without a permit and no permit is released while the session is live.
C4_ScopeOrder ==
    \A r \in Reqs :
        /\ IsPrefix(log[r], FullOrder) \/ log[r] = <<"acquire", "release">>
        /\ driver[r] = "live" => Holds(r)

\* A request has gone through the whole sequence.
C4_Witness == \E r \in Reqs : log[r] = FullOrder /\ pc[r] = "respond"

\* ------------------------------------------------------------------ C5
Contending(r) == pc[r] \in {"ready", "dispatch", "acquire", "waiting"} /\ IsDelhivery(r)
Blocked(r) == Contending(r) /\ ~ENABLED Step(r)
InFetch(r) == pc[r] = "navigate" /\ driver[r] = "live"

Responded(r) == pc[r] = "respond" /\ response[r] \in {200, 404, 500}
Acquired(r) == Count(log[r], "acquire") = 1

\* C6: no starvation: under fair scheduling a DELHIVERY handler that has
\* reached the acquisition of its permit, or is queued for it, eventually
\* holds the permit and eventually ends with a response (200, 404 or 500).
C6_NoStarvation ==
    \A r \in Reqs :
        (pc[r] \in {"acquire", "waiting"}) ~> (Acquired(r) /\ Responded(r))

\* A DELHIVERY request is about to take its permit while an earlier one has
\* already used a browser and the third is still to be served.
C6_Witness ==
    \E r, q, t \in Reqs :
        /\ pc[r] = "acquire"
        /\ pc[q] = "done" /\ driver[q] = "quit"
        /\ pc[t] = "ready" /\ IsDelhivery(t)

\* ------------------------------------------------------------------ C7
\* C7: a request inside the in-page polling wait does not block the others:
\* while one DELHIVERY request is in its fetch with a live session, any
\* other request whose handler is ready to run (a second DELHIVERY request,
\* or a BLUEDART one) can start.
C7_FetchDoesNotBlockOthers ==
    \A h, q \in Reqs :
        InFetch(h) /\ pc[q] = "ready" => ENABLED Schedule(q)

\* ------------------------------------------------------------------ C8
RenderFailures == {"timeout", "navigation", "extraction"}

\* C8 as stated: a browser fetch in which neither marker appears in time,
\* or in which navigation or extraction raises, is reported as 500.
C8_RenderFailureIs500 ==
    \A r \in Reqs :
        pc[r] = "respond" /\ fault[r] \in RenderFailures => response[r] = 500

\* C8 as amended: such a fetch returns None, which /track reports as 404,
\* the status it uses for every fetch that produced no event; 500 is sent
\* only when an exception leaves the scope (the browser did not start).
C8_RenderFailureIs404 ==
    \A r \in Reqs :
        /\ pc[r] \in {"dlv_check", "exit", "release", "except", "respond"}
             /\ fault[r] \in RenderFailures => event[r] = None
        /\ pc[r] = "respond" /\ fault[r] \in RenderFailures => response[r] = 404
        /\ pc[r] = "respond" /\ response[r] = 500 => fault[r] = "launch"

\* The wait of a browser fetch has timed out and the request is answered.
C8_Witness == \E r \in Reqs : pc[r] = "respond" /\ fault[r] = "timeout"

\* ------------------------------------------------------------------ C9
\* Every attempt made so far was answered with a status of the forcelist.
OnlyForced(r) == attempts[r] > 0 /\ allForced[r]

\* C9 as stated: when every attempt is answered with a status of the
\* forcelist, the fetch ends after exactly 3 attempts and the request is
\* reported as a fetch failure (500).
C9_ThreeAttemptsThenFailure ==
    \A r \in Reqs :
        /\ pc[r] \in {"bd_check", "respond"} /\ OnlyForced(r) => attempts[r] = 3
        /\ pc[r] = "respond" /\ OnlyForced(r) => response[r] = 500

\* C9 as amended: Retry(total=3) allows 3 retries after the first attempt,
\* so the fetch ends after exactly 4 attempts, never earlier; it then
\* returns None, which /track reports as 404 like any missing event.
C9_FourAttemptsThenNone ==
    \A r \in Reqs :
        /\ pc[r] = "bd_get" /\ OnlyForced(r) => attempts[r] <= RetryTotal
        /\ pc[r] \in {"bd_check", "respond"} /\ OnlyForced(r) =>
              /\ attempts[r] = RetryTotal + 1
              /\ fault[r] = "exhausted"
              /\ event[r] = None
        /\ pc[r] = "respond" /\ OnlyForced(r) => response[r] = 404

\* A fetch whose every attempt got a forcelist status has been answered.
C9_Witness ==
    \E r \in Reqs : pc[r] = "respond" /\ OnlyForced(r) /\ last[r].code = 429

\* ----------------------------------------------------------------- C10
FinalNon200(a) == a.kind = "response" /\ a.code \notin ({200} \cup StatusForcelist)

Parsed(r) ==
    /\ pc[r] \in {"bd_check", "respond"}
    /\ last[r] = [kind |-> "response", code |-> 200]
\* The fragment SCAN<w> is in the page but its first row cannot be read.
ParseFails(p, w) ==
    /\ p.fragId = w
    /\ ~p.table \/ ~p.tbody \/ p.rows = <<>> \/ Len(p.rows[1]) < 4

\* C11: for a 200 response whose page lacks the fragment SCAN<waybill>, or
\* has it but without table, tbody, first row or four columns, the Blue
\* Dart fetch returns None (not found): the request is answered 404, never
\* 500, and no exception leaves fetch_latest_event.
C11_ParseFailureIsNotFound ==
    \A r \in Reqs :
        Parsed(r) /\ (page[r].fragId # waybill[r] \/ ParseFails(page[r], waybill[r])) =>
            /\ event[r] = None
            /\ exc[r] = "none"
            /\ fault[r] = (IF page[r].fragId # waybill[r] THEN "nofrag" ELSE "raise")
            /\ pc[r] = "respond" => response[r] = 404

\* A page with the fragment and a table but no tbody was answered.
C11_Witness ==
    \E r \in Reqs :
        /\ Parsed(r) /\ pc[r] = "respond"
        /\ page[r].fragId = waybill[r] /\ page[r].table /\ ~page[r].tbody

\* ----------------------------------------------------------------- C12
\* C12: every event a tracker returns has Courier, Location, Details, Date
\* and Time non-empty and Link equal to the URL built from the waybill; in
\* particular so has the event of a Blue Dart fetch that got a 200 page with
\* the matching fragment.
C12_EventFieldsPopulated ==
    \A r \in Reqs :
        event[r] # None =>
            LET e == event[r][1] IN
            IF e.Courier = "Blue Dart"
            THEN /\ e.Location # <<>> /\ e.Details # <<>>
                 /\ e.Date # <<>> /\ e.Time # <<>>
                 /\ e.Link = BlueDartUrl(waybill[r])
            ELSE /\ e.Courier = "Delhivery"
                 /\ e.Location # "" /\ e.Details # <<>>
                 /\ e.Date # "" /\ e.Time # ""
                 /\ e.Link = DelhiveryUrl(waybill[r])

\* ----------------------------------------------------------------- C13
\* The wait of r's browser fetch ended on a marker and the DOM was read.
Extracted(r) ==
    /\ pc[r] \in {"dlv_check", "exit", "release", "except", "respond"}
    /\ dom[r] # NoDom
Delivered == <<"D","e","l","i","v","e","r","e","d">>

\* C13: when the delivered header is in the DOM the Delhivery fetch returns
\* an event with Location "Final Destination" and Details containing
\* "Delivered"; when only the live dot is there and the status label is
\* found but no description, it still returns an event, with Location
\* "Tracking Timeline" and Details ending in "Update available".
C13_EventByDomState ==
    \A r \in Reqs :
        /\ Extracted(r) /\ dom[r].delivered =>
              /\ event[r] # None
              /\ event[r][1].Location = "Final Destination"
              /\ Contains(event[r][1].Details, Delivered)
        /\ Extracted(r) /\ ~dom[r].delivered /\ dom[r].status /\ ~dom[r].desc =>
              /\ event[r] # None
              /\ event[r][1].Location = "Tracking Timeline"
              /\ EndsWith(event[r][1].Details, UpdateAvailable)
              /\ pc[r] = "respond" => response[r] = 200

\* A fetch that found the dot and the status but no description has been
\* answered.
C13_Witness ==
    \E r \in Reqs :
        /\ pc[r] = "respond" /\ Extracted(r)
        /\ ~dom[r].delivered /\ dom[r].dot /\ dom[r].status /\ ~dom[r].desc

\* ----------------------------------------------------------------- C14
Unsupported(c) == Normalize(c) \notin {BLUEDART, DELHIVERY}

\* C14: a request whose courier, trimmed and upper-cased, is neither
\* BLUEDART nor DELHIVERY is answered 400 by the step that reads the
\* courier, and that step makes no HTTP attempt, takes no permit, starts no
\* browser and leaves the semaphore as it was; a request answered 400 has no
\* resource event and no driver.
C14_UnsupportedTouchesNothing ==
    /\ [][\A r \in Reqs :
             Dispatch(r) /\ Unsupported(courier[r]) =>
                 /\ response'[r] = 400 /\ pc'[r] = "respond"
                 /\ UNCHANGED <<sem_value, sem_waiters, attempts, driver, log>>]_vars
    /\ [](\A r \in Reqs :
             response[r] = 400 =>
                 /\ log[r] = <<>> /\ driver[r] = "none" /\ attempts[r] = 0
                 /\ pc[r] \in {"respond", "done"})

\* The request for " ekart " has been answered 400, its courier trimmed and
\* upper-cased.
C14_Witness ==
    \E r \in Reqs :
        /\ pc[r] = "respond" /\ response[r] = 400
        /\ courier[r] = <<"E","K","A","R","T">>

\* ----------------------------------------------------------------- C15
\* C15: when BrowserManager.__enter__ raises, the request is answered 500
\* (not the 404 of a missing event), the permit it took is given back and
\* it has no driver, live or quit.
C15_LaunchFailureIs500 ==
    \A r \in Reqs :
        /\ fault[r] = "launch" =>
              /\ pc[r] \in {"release", "except", "respond"}
              /\ exc[r] = "Exception" /\ driver[r] = "none"
              /\ pc[r] = "release" => log[r] = <<"acquire">>
              /\ pc[r] \in {"except", "respond"} =>
                    log[r] = <<"acquire", "release">> /\ ~Holds(r)
              /\ pc[r] = "respond" => response[r] = 500
        /\ pc[r] = "done" /\ log[r] = <<"acquire", "release">> =>
              response[r] = 500 /\ driver[r] = "none"

\* A request whose browser did not start has its response, and the
\* semaphore is whole again.
C15_Witness ==
    \E r \in Reqs :
        pc[r] = "respond" /\ fault[r] = "launch" /\ sem_value = Capacity

\* ----------------------------------------------------------------- C16
InScope(r) == pc[r] \in {"navigate", "extract", "dlv_check", "exit"}

\* C16: a request creates at most one browser session and navigates at
\* most once, with the session it created itself; a live session is that of
\* one request inside its own scope, so no session serves two fetches; a
\* request that does not go to DELHIVERY creates none.
C16_OneSessionOneFetch ==
    \A r \in Reqs :
        /\ Count(log[r], "construct") <= 1
        /\ Count(log[r], "fetch") <= Count(log[r], "construct")
        /\ pc[r] = "navigate" => driver[r] = "live" /\ Count(log[r], "fetch") = 0
        /\ driver[r] = "live" => InScope(r) /\ running = r
        /\ driver[r] # "none" => Count(log[r], "construct") = 1
        /\ fault[r] \in RenderFailures => Count(log[r], "fetch") = 1 /\ pc[r] # "navigate"

\* Two requests have each used a session of their own, the first fetch
\* having failed to render.
C16_Witness ==
    \E a, b \in Reqs :
        /\ a # b /\ pc[a] = "done" /\ response[a] = 404 /\ driver[a] = "quit"
        /\ pc[b] = "dlv_check" /\ driver[b] = "live" /\ Count(log[b], "fetch") = 1

\* ----------------------------------------------------------------- C20
\* C20: when both the delivered header and the live dot are in the DOM at
\* the end of the wait, the fetch returns the delivered event, never the
\* timeline event; the timeline event is returned only when the delivered
\* header is absent.
C20_DeliveredTakesPrecedence ==
    \A r \in Reqs :
        /\ Extracted(r) /\ dom[r].delivered /\ dom[r].dot =>
              event[r] # None /\ event[r][1].Location = "Final Destination"
        /\ Extracted(r) /\ event[r] # None
             /\ event[r][1].Location = "Tracking Timeline" => ~dom[r].delivered

\* The DOM had the delivered header and a complete live row.
C20_Witness ==
    \E r \in Reqs :
        /\ Extracted(r) /\ pc[r] = "dlv_check"
        /\ dom[r].delivered /\ dom[r].dot /\ dom[r].status

\* ----------------------------------------------------------------- C17
\* Row k of the keys table exists and is inactive.
Revoked(k) == k \in DOMAIN keys /\ ~keys[k].is_active

\* C17: revocation is permanent: a successful revoke leaves the key's row
\* inactive; no later admin or /track step makes an inactive row active
\* again or changes its hash; validate_key is FALSE for every token of an
\* inactive row; and a /track request presenting such a token is answered
\* 401 without an HTTP attempt, a permit, a browser or a resource event.
C17_RevocationPermanent ==
    /\ [][\A k \in KeyIds, h \in AdminHeaders :
             AdminRevoke(h, k) /\ admin'.status = 200 => Revoked(k)']_vars
    /\ [][\A k \in KeyIds :
             Revoked(k) => Revoked(k)' /\ keys'[k].key_hash = keys[k].key_hash]_vars
    /\ [](\A k \in KeyIds, raw \in Secrets :
             Revoked(k) => ~ValidateKey(keys, Token(k, raw)))
    /\ [][\A r \in Reqs, k \in KeyIds, raw \in Secrets :
             Revoked(k) /\ Auth(r, <<Token(k, raw)>>) =>
                 /\ response'[r] = 401 /\ pc'[r] = "done"
                 /\ UNCHANGED <<sem_value, sem_waiters, attempts, driver, log>>]_vars

\* Key 1 has been revoked, key 2 was generated after that (it is the latest
\* admin answer), and a /track request is waiting for get_api_key.
C17_Witness ==
    /\ Revoked(1)
    /\ admin.op = "generate" /\ admin.status = 200
    /\ admin.body \in { <<Token(2, raw)>> : raw \in Secrets }
    /\ pc[1] = "auth"

\* ----------------------------------------------------------------- C18
\* C18: a revoke request from the admin for a key id that has no row, or
\* whose row is already inactive, is answered 404 (revoke_key returned
\* False); so the second of two revocations of the same key fails.
C18_RevokeInactiveIs404 ==
    [][\A k \in KeyIds :
          AdminRevoke(<<MasterKey>>, k) /\ master = <<MasterKey>>
            /\ (k \notin DOMAIN keys \/ Revoked(k))
          => admin'.status = 404]_vars

\* ----------------------------------------------------------------- C19
\* C19: with API_KEY set, an admin request (generate, list or revoke) whose
\* X-API-Key header is absent or is not the master key is answered 403 and
\* leaves the keys table as it was.
C19_NonMasterIs403 ==
    [][\A h \in AdminHeaders :
          /\ master = <<MasterKey>> /\ h # <<MasterKey>>
          /\ AdminGenerate(h) \/ AdminList(h) \/ \E k \in KeyIds : AdminRevoke(h, k)
          => admin'.status = 403 /\ UNCHANGED keys]_vars

====
